---- MODULE Spec2Model ----
(***************************************************************************)
(* The element model of the virtual DOM (virtual_dom/node/el.rs): the El   *)
(* struct, its Clone and Display impls, map_msg, and the builder and query *)
(* operations.  Strings are sequences of one-character strings, Option     *)
(* values are <<>> (None) or <<x>> (Some(x)).                              *)
(***************************************************************************)
EXTENDS Integers, Sequences, FiniteSets, TLC

VARIABLES el, last, classNames

vars == <<el, last, classNames>>

(* ---------------------------------------------------------------------- *)
(* Bounds of the model                                                     *)
(* ---------------------------------------------------------------------- *)

\* the largest element the builders grow (children, attributes and their
\* value characters, styles, event handlers and insert handlers together)
MaxSize == 3

\* the same, where every operation of the element is interleaved
MaxCoreSize == 1

\* the same, where trees are cloned, mapped, attached and stripped
MaxTreeSize == 2

\* the number of add_class calls recorded on one element
MaxClassCalls == 3

(* ---------------------------------------------------------------------- *)
(* Strings                                                                 *)
(* ---------------------------------------------------------------------- *)

None == <<>>

Some(x) == <<x>>

\* str::to_lowercase, character by character
ToLowerChar(c) ==
  CASE c = "A" -> "a" [] c = "B" -> "b" [] c = "C" -> "c" [] c = "D" -> "d"
    [] c = "E" -> "e" [] c = "F" -> "f" [] c = "G" -> "g" [] c = "H" -> "h"
    [] c = "I" -> "i" [] c = "J" -> "j" [] c = "K" -> "k" [] c = "L" -> "l"
    [] c = "M" -> "m" [] c = "N" -> "n" [] c = "O" -> "o" [] c = "P" -> "p"
    [] c = "Q" -> "q" [] c = "R" -> "r" [] c = "S" -> "s" [] c = "T" -> "t"
    [] c = "U" -> "u" [] c = "V" -> "v" [] c = "W" -> "w" [] c = "X" -> "x"
    [] c = "Y" -> "y" [] c = "Z" -> "z" [] OTHER -> c

ToLowercase(s) == [i \in 1..Len(s) |-> ToLowerChar(s[i])]

\* concatenation of a sequence of strings (Iterator::collect::<String>())
RECURSIVE Concat(_)
Concat(ss) == IF ss = <<>> THEN <<>> ELSE Head(ss) \o Concat(Tail(ss))

\* [String]::join(sep)
RECURSIVE Join(_, _)
Join(ss, sep) ==
  IF ss = <<>> THEN <<>>
  ELSE IF Len(ss) = 1 THEN Head(ss)
  ELSE Head(ss) \o sep \o Join(Tail(ss), sep)

(* ---------------------------------------------------------------------- *)
(* Tag, At, AtValue, Namespace, Attrs, Style                               *)
(* ---------------------------------------------------------------------- *)

TagDiv == [variant |-> "Div", name |-> <<>>]

TagSpan == [variant |-> "Span", name |-> <<>>]

TagImg == [variant |-> "Img", name |-> <<>>]

TagCustom(name) == [variant |-> "Custom", name |-> name]

\* Tag's Display: the tag's rendered name
TagToString(tag) ==
  CASE tag.variant = "Custom" -> tag.name
    [] tag.variant = "Div" -> <<"d", "i", "v">>
    [] tag.variant = "Span" -> <<"s", "p", "a", "n">>
    [] tag.variant = "Img" -> <<"i", "m", "g">>

\* At::as_str
AtAsStr(at) ==
  CASE at = "Class" -> <<"c", "l", "a", "s", "s">>
    [] at = "Style" -> <<"s", "t", "y", "l", "e">>
    [] at = "Xmlns" -> <<"x", "m", "l", "n", "s">>
    [] at = "Id" -> <<"i", "d">>
    [] at = "Src" -> <<"s", "r", "c">>

Ats == {"Class", "Style", "Xmlns", "Id", "Src"}

\* At::from(key): the attribute whose name is key
AtFrom(key) == CHOOSE at \in Ats : AtAsStr(at) = key

AtSome(v) == [t |-> "Some", v |-> v]

AtNone == [t |-> "None", v |-> <<>>]

\* Namespace::as_str
NamespaceAsStr(ns) ==
  CASE ns = "Svg" -> <<"h", "t", "t", "p", ":", "/", "/", "w", "w", "w", ".",
                       "w", "3", ".", "o", "r", "g", "/", "2", "0", "0", "0",
                       "/", "s", "v", "g">>
    [] ns = "Html" -> <<"h", "t", "t", "p", ":", "/", "/", "w", "w", "w", ".",
                        "w", "3", ".", "o", "r", "g", "/", "1", "9", "9", "9",
                        "/", "x", "h", "t", "m", "l">>

\* an insertion-ordered map with unique keys is a sequence of entries [k, v]
MapKeys(m) == {m[i].k : i \in 1..Len(m)}

MapIndex(m, k) == CHOOSE i \in 1..Len(m) : m[i].k = k

MapGet(m, k) == IF k \in MapKeys(m) THEN Some(m[MapIndex(m, k)].v) ELSE None

\* map.insert(k, v): overwrite the entry in place, or append a new one
MapInsert(m, k, v) ==
  IF k \in MapKeys(m)
  THEN [m EXCEPT ![MapIndex(m, k)] = [k |-> k, v |-> v]]
  ELSE Append(m, [k |-> k, v |-> v])

\* Attrs::add(key, value)
AttrsAdd(attrs, at, value) == MapInsert(attrs, at, AtSome(value))

\* one attribute as markup: name="value", or the bare name when it has no value
AttrToString(entry) ==
  IF entry.v.t = "Some"
  THEN AtAsStr(entry.k) \o <<"=", "\"">> \o entry.v.v \o <<"\"">>
  ELSE AtAsStr(entry.k)

\* Attrs' Display: the attributes in stored order, separated by one space
AttrsToString(attrs) ==
  Join([i \in 1..Len(attrs) |-> AttrToString(attrs[i])], <<" ">>)

\* Style's Display: property:value pairs in stored order, separated by ;
StyleToString(style) ==
  Join([i \in 1..Len(style) |-> style[i].k \o <<":">> \o style[i].v], <<";">>)

(* ---------------------------------------------------------------------- *)
(* Messages, event handlers, insert handlers                               *)
(* ---------------------------------------------------------------------- *)

\* the message type Ms, and the conversion functions f : Ms -> OtherMs
Msgs == {0, 1}

Fns == {[m \in Msgs |-> 1 - m], [m \in Msgs |-> 0]}

\* an EventHandler: the event it listens to and the message its callback gives
EventHandler(trigger, msg) == [trigger |-> trigger, msg |-> msg]

\* an InsertEventHandler: the message its callback gives on insertion
InsertEventHandler(msg) == [msg |-> msg]

\* EventHandlerManager::new()
EventHandlerManagerNew == <<>>

\* EventHandlerManager::add_event_handlers(handlers)
AddEventHandlers(manager, handlers) == manager \o handlers

\* EventHandlerManager::clone(): the registrations are not carried over
EventHandlerManagerClone(manager) == <<>>

\* EventHandlerManager::map_msg(f): every handler's message goes through f
EventHandlerManagerMapMsg(manager, f) ==
  [i \in 1..Len(manager) |-> EventHandler(manager[i].trigger, f[manager[i].msg])]

(* ---------------------------------------------------------------------- *)
(* Node and El                                                             *)
(* ---------------------------------------------------------------------- *)

\* Node::Text(Text::new(text)), Node::new_text(text)
TextNode(text) == [kind |-> "Text", text |-> text]

\* Node::Element(el)
ElementNode(e) == [kind |-> "Element", el |-> e]

\* Node::Empty
EmptyNode == [kind |-> "Empty"]

\* Node::is_text
is_text(node) == node.kind = "Text"

\* El::empty(tag)
empty(tag) ==
  [tag |-> tag,
   attrs |-> <<>>,
   style |-> <<>>,
   event_handler_manager |-> EventHandlerManagerNew,
   children |-> <<>>,
   namespace |-> None,
   node_ws |-> None,
   refs |-> <<>>,
   key |-> None,
   insert_handlers |-> <<>>]

\* El::empty_svg(tag)
empty_svg(tag) == [empty(tag) EXCEPT !.namespace = Some("Svg")]

RECURSIVE clone(_)
RECURSIVE NodeClone(_)
RECURSIVE map_msg(_, _)
RECURSIVE NodeMapMsg(_, _)
RECURSIVE fmt(_)
RECURSIVE NodeToString(_)
RECURSIVE strip_ws_nodes_from_self_and_children(_)
RECURSIVE NodeStrip(_)

\* Vec<Node>::clone(): every child cloned, in order
ChildrenClone(children) == [i \in 1..Len(children) |-> NodeClone(children[i])]

\* a clone that copies the insert handlers like every other field
clone_with_insert_handlers(self) ==
  [tag |-> self.tag,
   attrs |-> self.attrs,
   style |-> self.style,
   event_handler_manager |-> EventHandlerManagerClone(self.event_handler_manager),
   children |-> ChildrenClone(self.children),
   namespace |-> self.namespace,
   node_ws |-> self.node_ws,
   refs |-> self.refs,
   key |-> self.key,
   insert_handlers |-> self.insert_handlers]

\* a clone that copies the event handler manager field as it is
clone_with_event_handlers(self) ==
  [tag |-> self.tag,
   attrs |-> self.attrs,
   style |-> self.style,
   event_handler_manager |-> self.event_handler_manager,
   children |-> ChildrenClone(self.children),
   namespace |-> self.namespace,
   node_ws |-> self.node_ws,
   refs |-> self.refs,
   key |-> self.key,
   insert_handlers |-> <<>>]

\* impl Clone for El
clone(self) ==
  [tag |-> self.tag,
   attrs |-> self.attrs,
   style |-> self.style,
   event_handler_manager |-> EventHandlerManagerClone(self.event_handler_manager),
   children |-> ChildrenClone(self.children),
   namespace |-> self.namespace,
   node_ws |-> self.node_ws,
   refs |-> self.refs,
   key |-> self.key,
   insert_handlers |-> <<>>]

\* Node's derived Clone
NodeClone(node) ==
  IF node.kind = "Element" THEN ElementNode(clone(node.el)) ELSE node

\* children.into_iter().map(|c| c.map_msg(f.clone())).collect()
ChildrenMapMsg(children, f) ==
  [i \in 1..Len(children) |-> NodeMapMsg(children[i], f)]

\* a map_msg that collects the mapped children in reverse
map_msg_reversed(self, f) ==
  [tag |-> self.tag,
   attrs |-> self.attrs,
   style |-> self.style,
   children |-> [i \in 1..Len(self.children) |->
                   NodeMapMsg(self.children[Len(self.children) + 1 - i], f)],
   node_ws |-> self.node_ws,
   namespace |-> self.namespace,
   event_handler_manager |-> EventHandlerManagerMapMsg(self.event_handler_manager, f),
   refs |-> self.refs,
   key |-> self.key,
   insert_handlers |-> <<>>]

\* a map_msg that rewrites the insert handlers through f instead of dropping them
map_msg_with_insert_handlers(self, f) ==
  [tag |-> self.tag,
   attrs |-> self.attrs,
   style |-> self.style,
   children |-> ChildrenMapMsg(self.children, f),
   node_ws |-> self.node_ws,
   namespace |-> self.namespace,
   event_handler_manager |-> EventHandlerManagerMapMsg(self.event_handler_manager, f),
   refs |-> self.refs,
   key |-> self.key,
   insert_handlers |-> [i \in 1..Len(self.insert_handlers) |->
                          InsertEventHandler(f[self.insert_handlers[i].msg])]]

\* MessageMapper for El
map_msg(self, f) ==
  [tag |-> self.tag,
   attrs |-> self.attrs,
   style |-> self.style,
   children |-> ChildrenMapMsg(self.children, f),
   node_ws |-> self.node_ws,
   namespace |-> self.namespace,
   event_handler_manager |-> EventHandlerManagerMapMsg(self.event_handler_manager, f),
   refs |-> self.refs,
   key |-> self.key,
   insert_handlers |-> <<>>]

\* MessageMapper for Node
NodeMapMsg(node, f) ==
  IF node.kind = "Element" THEN ElementNode(map_msg(node.el, f)) ELSE node

\* MessageMapper for Vec<El>
VecMapMsg(els, f) == [i \in 1..Len(els) |-> map_msg(els[i], f)]

\* https://developer.mozilla.org/en-US/docs/Glossary/empty_element
empty_elements ==
  {<<"a", "r", "e", "a">>, <<"b", "a", "s", "e">>, <<"b", "r">>,
   <<"c", "o", "l">>, <<"e", "m", "b", "e", "d">>, <<"h", "r">>,
   <<"i", "m", "g">>, <<"i", "n", "p", "u", "t">>, <<"l", "i", "n", "k">>,
   <<"m", "e", "t", "a">>, <<"p", "a", "r", "a", "m">>,
   <<"s", "o", "u", "r", "c", "e">>, <<"t", "r", "a", "c", "k">>,
   <<"w", "b", "r">>}

\* fmt adding the namespace attribute before the style attribute
FmtAttrsXmlnsFirst(self) ==
  LET attrs0 == self.attrs
      style == StyleToString(self.style)
      attrs1 == IF self.namespace # None
                THEN AttrsAdd(attrs0, "Xmlns", NamespaceAsStr(self.namespace[1]))
                ELSE attrs0
  IN IF style # <<>> THEN AttrsAdd(attrs1, "Style", style) ELSE attrs1

\* the attributes fmt renders: the stored ones, then At::Style and At::Xmlns added
FmtAttrs(self) ==
  LET attrs0 == self.attrs
      style == StyleToString(self.style)
      attrs1 == IF style # <<>> THEN AttrsAdd(attrs0, "Style", style) ELSE attrs0
  IN IF self.namespace # None
     THEN AttrsAdd(attrs1, "Xmlns", NamespaceAsStr(self.namespace[1]))
     ELSE attrs1

\* the opening tag fmt writes, up to and including ">"
FmtOpen(self) ==
  LET tag == TagToString(self.tag)
      attributes == AttrsToString(FmtAttrs(self))
  IN <<"<">> \o tag
       \o (IF attributes # <<>> THEN <<" ">> \o attributes ELSE <<>>)
       \o <<">">>

\* fmt comparing the tag with the empty elements without lower-casing it
FmtCloseCaseSensitive(self) ==
  LET tag == TagToString(self.tag)
  IN IF tag \notin empty_elements
     THEN <<"<", "/">> \o tag \o <<">">>
     ELSE <<>>

\* the closing tag fmt writes: none for an empty element
FmtClose(self) ==
  LET tag == TagToString(self.tag)
  IN IF ToLowercase(tag) \notin empty_elements
     THEN <<"<", "/">> \o tag \o <<">">>
     ELSE <<>>

\* for child in &self.children { output += &child.to_string() }
FmtChildren(children) ==
  Concat([i \in 1..Len(children) |-> NodeToString(children[i])])

\* impl fmt::Display for El
fmt(self) == FmtOpen(self) \o FmtChildren(self.children) \o FmtClose(self)

\* Node's Display
NodeToString(node) ==
  CASE node.kind = "Element" -> fmt(node.el)
    [] node.kind = "Text" -> node.text
    [] OTHER -> <<>>

\* El::add_child
add_child(self, element) == [self EXCEPT !.children = Append(@, element)]

\* El::add_attr
add_attr(self, key, val) ==
  [self EXCEPT !.attrs = MapInsert(@, AtFrom(key), val)]

\* an add_class that puts the space before the name whatever the value holds
AddClassModifyAlwaysSpace(at_value, name) ==
  IF at_value.t = "Some"
  THEN AtSome(at_value.v \o <<" ">> \o name)
  ELSE AtSome(name)

\* the and_modify closure of add_class
AddClassModify(at_value, name) ==
  IF at_value.t = "Some"
  THEN AtSome((IF at_value.v # <<>> THEN at_value.v \o <<" ">> ELSE at_value.v)
              \o name)
  ELSE AtSome(name)

\* El::add_class
add_class(self, name) ==
  [self EXCEPT !.attrs =
     IF "Class" \in MapKeys(@)
     THEN [@ EXCEPT ![MapIndex(@, "Class")].v = AddClassModify(@, name)]
     ELSE Append(@, [k |-> "Class", v |-> AtSome(name)])]

\* El::add_style
add_style(self, key, val) == [self EXCEPT !.style = MapInsert(@, key, val)]

\* El::add_event_handler
add_event_handler(self, event_handler) ==
  [self EXCEPT !.event_handler_manager = AddEventHandlers(@, <<event_handler>>)]

\* El::add_text
add_text(self, text) == [self EXCEPT !.children = Append(@, TextNode(text))]

\* a replace_text that replaces the last text node only
replace_text_last_only(self, text) ==
  [self EXCEPT !.children =
     IF @ # <<>> /\ is_text(@[Len(@)])
     THEN Append(SubSeq(@, 1, Len(@) - 1), TextNode(text))
     ELSE Append(@, TextNode(text))]

\* El::replace_text
replace_text(self, text) ==
  [self EXCEPT !.children =
     Append(SelectSeq(@, LAMBDA node : ~is_text(node)), TextNode(text))]

\* a get_text that also collects the text of the child elements
get_text_nested(self) ==
  Concat([i \in 1..Len(self.children) |->
            CASE self.children[i].kind = "Text" -> self.children[i].text
              [] self.children[i].kind = "Element" ->
                   Concat([j \in 1..Len(SelectSeq(self.children[i].el.children, is_text)) |->
                             SelectSeq(self.children[i].el.children, is_text)[j].text])
              [] OTHER -> <<>>])

\* El::get_text
get_text(self) ==
  Concat([i \in 1..Len(SelectSeq(self.children, is_text)) |->
            SelectSeq(self.children, is_text)[i].text])

\* a strip that clears the element's own handle only
strip_self_only(self) == [self EXCEPT !.node_ws = None]

\* El::strip_ws_nodes_from_self_and_children
strip_ws_nodes_from_self_and_children(self) ==
  [self EXCEPT !.node_ws = None,
               !.children = [i \in 1..Len(@) |-> NodeStrip(@[i])]]

\* Node::strip_ws_nodes_from_self_and_children
NodeStrip(node) ==
  IF node.kind = "Element"
  THEN ElementNode(strip_ws_nodes_from_self_and_children(node.el))
  ELSE node

(* ---------------------------------------------------------------------- *)
(* Writers of El's public fields that live outside el.rs                   *)
(* ---------------------------------------------------------------------- *)

RECURSIVE AttachEl(_, _)

\* the reconciler binds an element and its descendant elements to native nodes
AttachEl(self, h) ==
  [self EXCEPT !.node_ws = Some(h),
               !.children =
                  [i \in 1..Len(@) |->
                     IF @[i].kind = "Element"
                     THEN ElementNode(AttachEl(@[i].el, h + i))
                     ELSE @[i]]]

\* el.insert_handlers.push(handler)
PushInsert(self, handler) == [self EXCEPT !.insert_handlers = Append(@, handler)]

\* el.key = Some(key)
WithKey(self, key) == [self EXCEPT !.key = Some(key)]

\* el.refs.push(shared_node_ws)
WithRef(self, r) == [self EXCEPT !.refs = Append(@, r)]

(* ---------------------------------------------------------------------- *)
(* Inputs                                                                  *)
(* ---------------------------------------------------------------------- *)

Tags == {TagDiv, TagImg, TagCustom(<<"B", "R">>)}

Texts == {<<"a">>, <<"b">>}

ClassNameInputs == {<<>>, <<"b">>, <<"c">>}

AttrInputs ==
  {<<(<<"i", "d">>), AtSome(<<"x">>)>>,
   <<(<<"s", "t", "y", "l", "e">>), AtSome(<<"x">>)>>,
   <<(<<"x", "m", "l", "n", "s">>), AtNone>>,
   <<(<<"c", "l", "a", "s", "s">>), AtSome(<<>>)>>,
   <<(<<"c", "l", "a", "s", "s">>), AtNone>>}

StyleInputs == {<<(<<"w">>), (<<"1">>)>>, <<(<<"w">>), (<<"2">>)>>}

EventHandlerInputs == {EventHandler("click", 0), EventHandler("input", 1)}

InsertHandlerInputs == {InsertEventHandler(1)}

KeyInputs == {<<"k">>}

RefInputs == {1}

Handles == {1, 2}

\* <span id="x" style="w:1">i</span>, keyed, with an event handler, an insert
\* handler and a ref
Inner ==
  [empty(TagSpan) EXCEPT
     !.attrs = <<[k |-> "Id", v |-> AtSome(<<"x">>)]>>,
     !.style = <<[k |-> <<"w">>, v |-> <<"1">>]>>,
     !.event_handler_manager = <<EventHandler("click", 1)>>,
     !.children = <<TextNode(<<"i">>)>>,
     !.refs = <<1>>,
     !.key = Some(<<"k">>),
     !.insert_handlers = <<InsertEventHandler(1)>>]

\* <div><span ...>i</span>o</div> with an insert handler of its own
Outer ==
  [empty(TagDiv) EXCEPT
     !.children = <<ElementNode(Inner), TextNode(<<"o">>)>>,
     !.insert_handlers = <<InsertEventHandler(0)>>]

NodeInputs ==
  {TextNode(<<"a">>), ElementNode(Inner), ElementNode(Outer), EmptyNode}

(* ---------------------------------------------------------------------- *)
(* The state machine                                                       *)
(* ---------------------------------------------------------------------- *)

\* the characters of the class attribute's value
ClassLen(attrs) ==
  IF "Class" \in MapKeys(attrs) THEN Len(attrs[MapIndex(attrs, "Class")].v.v)
  ELSE 0

\* what the builders have put on the element
Size(e) ==
  Len(e.children) + Len(e.attrs) + ClassLen(e.attrs) + Len(e.style)
    + Len(e.event_handler_manager) + Len(e.insert_handlers) + Len(e.refs)
    + Len(e.key)

Call(name, arg, out) == [name |-> name, arg |-> arg, out |-> out]

Init ==
  /\ \E tag \in Tags : el \in {empty(tag), empty_svg(tag)}
  /\ last = Call("empty", <<>>, <<>>)
  /\ classNames = Some(<<>>)

AddChild(max) ==
  \E node \in NodeInputs :
    /\ Size(el) < max
    /\ el' = add_child(el, node)
    /\ last' = Call("add_child", node, <<>>)
    /\ UNCHANGED classNames

AddAttr(max) ==
  \E kv \in AttrInputs :
    /\ Size(el) < max
    /\ el' = add_attr(el, kv[1], kv[2])
    /\ last' = Call("add_attr", kv, <<>>)
    /\ classNames' = IF AtFrom(kv[1]) = "Class" THEN None ELSE classNames

AddClass(max) ==
  \E name \in ClassNameInputs :
    /\ Size(el) < max
    /\ classNames # None => Len(classNames[1]) < MaxClassCalls
    /\ el' = add_class(el, name)
    /\ last' = Call("add_class", name, <<>>)
    /\ classNames' = IF classNames = None THEN None
                      ELSE Some(Append(classNames[1], name))

AddStyle(max) ==
  \E kv \in StyleInputs :
    /\ Size(el) < max
    /\ el' = add_style(el, kv[1], kv[2])
    /\ last' = Call("add_style", kv, <<>>)
    /\ UNCHANGED classNames

AddEventHandler(max) ==
  \E h \in EventHandlerInputs :
    /\ Size(el) < max
    /\ el' = add_event_handler(el, h)
    /\ last' = Call("add_event_handler", h, <<>>)
    /\ UNCHANGED classNames

AddText(max) ==
  \E text \in Texts :
    /\ Size(el) < max
    /\ el' = add_text(el, text)
    /\ last' = Call("add_text", text, <<>>)
    /\ UNCHANGED classNames

ReplaceText ==
  \E text \in Texts :
    /\ el' = replace_text(el, text)
    /\ last' = Call("replace_text", text, <<>>)
    /\ UNCHANGED classNames

GetText ==
  /\ last' = Call("get_text", <<>>, get_text(el))
  /\ UNCHANGED <<el, classNames>>

Clone ==
  /\ el' = clone(el)
  /\ last' = Call("clone", <<>>, <<>>)
  /\ UNCHANGED classNames

MapMsg ==
  \E f \in Fns :
    /\ el' = map_msg(el, f)
    /\ last' = Call("map_msg", f, <<>>)
    /\ UNCHANGED classNames

\* the element's child elements as a Vec<El>
ElementChildren(e) ==
  [i \in 1..Len(SelectSeq(e.children, LAMBDA n : n.kind = "Element")) |->
     SelectSeq(e.children, LAMBDA n : n.kind = "Element")[i].el]

MapMsgVec ==
  \E f \in Fns :
    /\ last' = Call("vec_map_msg", f, VecMapMsg(ElementChildren(el), f))
    /\ UNCHANGED <<el, classNames>>

Serialize ==
  /\ last' = Call("to_string", <<>>, fmt(el))
  /\ UNCHANGED <<el, classNames>>

Strip ==
  /\ el' = strip_ws_nodes_from_self_and_children(el)
  /\ last' = Call("strip_ws_nodes_from_self_and_children", <<>>, <<>>)
  /\ UNCHANGED classNames

Attach ==
  \E h \in Handles :
    /\ el' = AttachEl(el, h)
    /\ last' = Call("attach", h, <<>>)
    /\ UNCHANGED classNames

PushInsertHandler(max) ==
  \E h \in InsertHandlerInputs :
    /\ Size(el) < max
    /\ el' = PushInsert(el, h)
    /\ last' = Call("push_insert_handler", h, <<>>)
    /\ UNCHANGED classNames

SetKey(max) ==
  \E key \in KeyInputs :
    /\ el.key = None
    /\ Size(el) < max
    /\ el' = WithKey(el, key)
    /\ last' = Call("set_key", key, <<>>)
    /\ UNCHANGED classNames

PushRef(max) ==
  \E r \in RefInputs :
    /\ Size(el) < max
    /\ el' = WithRef(el, r)
    /\ last' = Call("push_ref", r, <<>>)
    /\ UNCHANGED classNames

\* every operation, on small elements
Next ==
  \/ AddChild(MaxCoreSize) \/ AddAttr(MaxCoreSize) \/ AddClass(MaxCoreSize)
  \/ AddStyle(MaxCoreSize) \/ AddEventHandler(MaxCoreSize) \/ AddText(MaxCoreSize)
  \/ PushInsertHandler(MaxCoreSize) \/ SetKey(MaxCoreSize) \/ PushRef(MaxCoreSize)
  \/ ReplaceText \/ GetText \/ Clone \/ MapMsg \/ MapMsgVec
  \/ Serialize \/ Strip \/ Attach

Spec == Init /\ [][Next]_vars

\* building a tree, cloning it, mapping its messages, attaching and stripping it
NextTree ==
  \/ AddChild(MaxTreeSize) \/ AddAttr(MaxTreeSize) \/ AddStyle(MaxTreeSize)
  \/ AddEventHandler(MaxTreeSize)
  \/ PushInsertHandler(MaxTreeSize) \/ SetKey(MaxTreeSize) \/ PushRef(MaxTreeSize)
  \/ Clone \/ MapMsg \/ MapMsgVec \/ Strip \/ Attach

SpecTree == Init /\ [][NextTree]_vars

\* the children and the text operations
NextText ==
  \/ AddChild(MaxSize) \/ AddText(MaxSize) \/ ReplaceText \/ GetText

SpecText == Init /\ [][NextText]_vars

\* the attributes and the class attribute
NextClass == AddAttr(MaxSize) \/ AddClass(MaxSize)

SpecClass == Init /\ [][NextClass]_vars

\* serialization of an element with attributes, style and children
NextFmt ==
  \/ AddChild(MaxSize) \/ AddAttr(MaxSize) \/ AddStyle(MaxSize) \/ Serialize

SpecFmt == Init /\ [][NextFmt]_vars

(* ---------------------------------------------------------------------- *)
(* Vocabulary of the properties                                            *)
(* ---------------------------------------------------------------------- *)

RECURSIVE EraseEvents(_)
RECURSIVE EraseCallbacks(_)
RECURSIVE InsertFree(_)
RECURSIVE HandleFree(_)

\* the node with the event registrations left out at every depth
EraseEvents(node) ==
  IF node.kind = "Element"
  THEN ElementNode([node.el EXCEPT
         !.event_handler_manager = <<>>,
         !.children = [i \in 1..Len(@) |-> EraseEvents(@[i])]])
  ELSE node

\* the node with the event registrations and the insert handlers left out at
\* every depth: what does not depend on the message type
EraseCallbacks(node) ==
  IF node.kind = "Element"
  THEN ElementNode([node.el EXCEPT
         !.event_handler_manager = <<>>,
         !.insert_handlers = <<>>,
         !.children = [i \in 1..Len(@) |-> EraseCallbacks(@[i])]])
  ELSE node

\* no element of the node, at any depth, holds an insert handler
InsertFree(node) ==
  node.kind = "Element" =>
    /\ node.el.insert_handlers = <<>>
    /\ \A i \in 1..Len(node.el.children) : InsertFree(node.el.children[i])

\* no element of the node, at any depth, holds a native handle
HandleFree(node) ==
  node.kind = "Element" =>
    /\ node.el.node_ws = None
    /\ \A i \in 1..Len(node.el.children) : HandleFree(node.el.children[i])

\* some element below the node's own level holds an insert handler
DeepInsert(e) ==
  \E i \in 1..Len(e.children) : ~InsertFree(e.children[i])

\* the fields of an element that clone and map_msg carry over as they are
SameCarried(a, b) ==
  /\ a.tag = b.tag
  /\ a.attrs = b.attrs
  /\ a.style = b.style
  /\ a.namespace = b.namespace
  /\ a.key = b.key
  /\ a.node_ws = b.node_ws
  /\ a.refs = b.refs

(* ---------------------------------------------------------------------- *)
(* C1: clone                                                               *)
(* ---------------------------------------------------------------------- *)

\* C1 as stated: clone(e) has children equal to e.children (same length, same
\* order, each child equal), the same tag, attributes, style, namespace, key,
\* native handle and back-references, and no insert handlers.  The children
\* are compared without their event registrations, which C2 is about.
C1Original ==
  LET c == clone(el)
  IN /\ Len(c.children) = Len(el.children)
     /\ \A i \in 1..Len(el.children) :
          EraseEvents(c.children[i]) = EraseEvents(el.children[i])
     /\ SameCarried(c, el)
     /\ c.insert_handlers = <<>>

\* C1 amended: clone(e) has the children of e in the same number and order,
\* each equal to the original child up to the insert handlers and event
\* registrations of the elements in it; it carries the same tag, attributes,
\* style, namespace, key, native handle and back-references; and no element
\* of the clone, at any depth, holds an insert handler.
C1Amended ==
  LET c == clone(el)
  IN /\ Len(c.children) = Len(el.children)
     /\ \A i \in 1..Len(el.children) :
          EraseCallbacks(c.children[i]) = EraseCallbacks(el.children[i])
     /\ SameCarried(c, el)
     /\ InsertFree(ElementNode(c))

\* an attached element with its own insert handler and a child that holds
\* insert handlers at two depths
C1Witness ==
  /\ el.insert_handlers # <<>>
  /\ el.node_ws # None
  /\ \E i \in 1..Len(el.children) :
       /\ el.children[i].kind = "Element"
       /\ el.children[i].el.insert_handlers # <<>>
       /\ DeepInsert(el.children[i].el)

(* ---------------------------------------------------------------------- *)
(* C2: clone and the event registrations                                   *)
(* ---------------------------------------------------------------------- *)

MapMsgPreserves(e, m) ==
  /\ SameCarried(m, e)
  /\ Len(m.children) = Len(e.children)
  /\ EraseCallbacks(ElementNode(m)) = EraseCallbacks(ElementNode(e))

\* C3: map_msg(e, f) has the key, tag, attributes, style, namespace, native
\* handle and back-references of e, and at every depth the same children in
\* the same order; map_msg over a Vec<El> does so element by element, in order.
C3Thm ==
  /\ \A f \in Fns : MapMsgPreserves(el, map_msg(el, f))
  /\ last.name = "vec_map_msg" =>
       /\ Len(last.out) = Len(ElementChildren(el))
       /\ \A i \in 1..Len(last.out) :
            MapMsgPreserves(ElementChildren(el)[i], last.out[i])

\* a Vec of two different elements, one of them nested, has been mapped
C3Witness ==
  /\ last.name = "vec_map_msg"
  /\ Len(last.out) >= 2
  /\ last.out[1].tag # last.out[2].tag
  /\ \E i \in 1..Len(last.out) :
       \E j \in 1..Len(last.out[i].children) :
         last.out[i].children[j].kind = "Element"

\* C4: map_msg(e, f) holds no insert handlers, whatever e holds.
C4Thm == \A f \in Fns : map_msg(el, f).insert_handlers = <<>>

\* an element that holds insert handlers of its own
C4Witness ==
  /\ last.name = "push_insert_handler"
  /\ Len(el.insert_handlers) >= 2

(* ---------------------------------------------------------------------- *)
(* C5: add_class                                                           *)
(* ---------------------------------------------------------------------- *)

RECURSIVE DropLeadingEmpty(_)

\* the names from the first non-empty one on
DropLeadingEmpty(names) ==
  IF names = <<>> THEN <<>>
  ELSE IF Head(names) = <<>> THEN DropLeadingEmpty(Tail(names))
  ELSE names

\* the attributes other than class, in stored order
OtherAttrs(attrs) == SelectSeq(attrs, LAMBDA entry : entry.k # "Class")

\* C5 as stated, on sequences of calls: after add_class(n1), ..., add_class(nk)
\* on an element with no class attribute the value is n1 .. nk in call order
\* joined by single spaces.
C5Original ==
  (classNames # None /\ classNames[1] # <<>>) =>
    MapGet(el.attrs, "Class") = Some(AtSome(Join(classNames[1], <<" ">>)))

\* one add_class(name) step: absent becomes name; a non-empty value v becomes
\* v, one space, name; an empty or missing value becomes name; nothing else
\* in the attributes changes
AddClassStep ==
  last'.name = "add_class" =>
    LET old == MapGet(el.attrs, "Class")
        new == MapGet(el'.attrs, "Class")
        name == last'.arg
    IN /\ old = None => new = Some(AtSome(name))
       /\ (old # None /\ old[1].t = "Some" /\ old[1].v # <<>>) =>
            new = Some(AtSome(old[1].v \o <<" ">> \o name))
       /\ (old # None /\ (old[1].t # "Some" \/ old[1].v = <<>>)) =>
            new = Some(AtSome(name))
       /\ OtherAttrs(el'.attrs) = OtherAttrs(el.attrs)
       /\ Len(el'.attrs) = Len(el.attrs) + (IF old = None THEN 1 ELSE 0)

\* C5 amended: add_class(name) sets an absent class attribute to name, turns
\* a non-empty value v into v, one space, name, and turns an empty value into
\* name with no space before it; no other attribute is changed.  After
\* add_class(n1), ..., add_class(nk) on an element with no class attribute the
\* value is the names from the first non-empty one on, in call order, joined
\* by single spaces.
C5Amended ==
  /\ []((classNames # None /\ classNames[1] # <<>>) =>
         MapGet(el.attrs, "Class")
           = Some(AtSome(Join(DropLeadingEmpty(classNames[1]), <<" ">>))))
  /\ [][AddClassStep]_vars

\* add_class(""), add_class("b"), add_class("c") on an element without class
C5Witness ==
  /\ last.name = "add_class"
  /\ classNames = Some(<<(<<>>), (<<"b">>), (<<"c">>)>>)
  /\ MapGet(el.attrs, "Class") = Some(AtSome(<<"b", " ", "c">>))

(* ---------------------------------------------------------------------- *)
(* C6, C7: replace_text, get_text, add_text                                *)
(* ---------------------------------------------------------------------- *)

RECURSIVE NonTextOf(_)
RECURSIVE DirectText(_)

\* the children that are not Text nodes, in their relative order
NonTextOf(children) ==
  IF children = <<>> THEN <<>>
  ELSE IF Head(children).kind = "Text" THEN NonTextOf(Tail(children))
  ELSE <<Head(children)>> \o NonTextOf(Tail(children))

\* the contents of the Text nodes among the children, one after the other
DirectText(children) ==
  IF children = <<>> THEN <<>>
  ELSE (IF Head(children).kind = "Text" THEN Head(children).text ELSE <<>>)
         \o DirectText(Tail(children))

\* what one replace_text(t) step does to the children
C6Step ==
  last'.name = "replace_text" =>
    LET new == el'.children
    IN /\ Len(new) = Len(NonTextOf(el.children)) + 1
       /\ SubSeq(new, 1, Len(new) - 1) = NonTextOf(el.children)
       /\ new[Len(new)] = TextNode(last'.arg)
       /\ Cardinality({i \in 1..Len(new) : new[i].kind = "Text"}) = 1

\* C6: after replace_text(t) the children are the former non-text children in
\* their former order followed by one Text child t; exactly one text child
\* remains and it is last.
C6Thm == [][C6Step]_vars

\* replace_text has left two different non-text children before the new text
C6Witness ==
  /\ last.name = "replace_text"
  /\ Len(el.children) = 3
  /\ el.children[1].kind = "Element"
  /\ el.children[2].kind # "Text"
  /\ el.children[1] # el.children[2]
  /\ el.children[3] = TextNode(last.arg)

\* what get_text, add_text and replace_text steps do to the text
C7Step ==
  /\ last'.name = "get_text" => el' = el
  /\ last'.name = "add_text" => get_text(el') = get_text(el) \o last'.arg
  /\ last'.name = "replace_text" => get_text(el') = last'.arg

\* C7: get_text() is the contents of the direct Text children in child order
\* with no separator; other children and nested text contribute nothing; the
\* element is left unchanged; after add_text(t) get_text() is the former
\* get_text() followed by t, and after replace_text(t) it is t.
C7Thm ==
  /\ [](last.name = "get_text" => last.out = DirectText(el.children))
  /\ [][C7Step]_vars

\* get_text gave "ab" on [Text a, an element with text of its own, Text b]
C7Witness ==
  /\ last.name = "get_text"
  /\ last.out = <<"a", "b">>
  /\ Len(el.children) = 3
  /\ el.children[2].kind = "Element"
  /\ DirectText(el.children[2].el.children) # <<>>

(* ---------------------------------------------------------------------- *)
(* C8, C9: serialization                                                   *)
(* ---------------------------------------------------------------------- *)

StartsWith(s, prefix) ==
  /\ Len(s) >= Len(prefix)
  /\ SubSeq(s, 1, Len(prefix)) = prefix

EndsWith(s, suffix) ==
  /\ Len(s) >= Len(suffix)
  /\ SubSeq(s, Len(s) - Len(suffix) + 1, Len(s)) = suffix

ClosingTag(tag) == <<"<", "/">> \o TagToString(tag) \o <<">">>

\* C8: the markup of an element ends with its closing tag if and only if the
\* lower-cased tag name is not one of the fourteen empty elements; the
\* children are rendered in order between the opening and the closing tag.
C8Thm ==
  last.name = "to_string" =>
    LET void == ToLowercase(TagToString(el.tag)) \in empty_elements
    IN /\ Cardinality(empty_elements) = 14
       /\ EndsWith(last.out, ClosingTag(el.tag)) <=> ~void
       /\ last.out
            = FmtOpen(el)
                \o Concat([i \in 1..Len(el.children) |->
                             NodeToString(el.children[i])])
                \o (IF void THEN <<>> ELSE ClosingTag(el.tag))

\* an element whose tag is an empty element only when lower-cased, with children
C8Witness ==
  /\ last.name = "to_string"
  /\ el.tag = TagCustom(<<"B", "R">>)
  /\ Len(el.children) >= 2
  /\ el.children[1] # el.children[2]

\* the opening tag with the given attributes, in the given order
OpeningTag(tag, entries) ==
  <<"<">> \o TagToString(tag)
    \o (IF entries = <<>> THEN <<>>
        ELSE <<" ">> \o Join([i \in 1..Len(entries) |-> AttrToString(entries[i])],
                            <<" ">>))
    \o <<">">>

\* the synthesized style attribute, when style is not empty
StyleEntry(e) ==
  IF e.style = <<>> THEN <<>>
  ELSE <<[k |-> "Style", v |-> AtSome(StyleToString(e.style))]>>

\* the synthesized namespace attribute, when namespace is set
XmlnsEntry(e) ==
  IF e.namespace = None THEN <<>>
  ELSE <<[k |-> "Xmlns", v |-> AtSome(NamespaceAsStr(e.namespace[1]))]>>

\* C9 as stated: the opening tag holds the explicit attributes as stored, then
\* the synthesized style attribute, then the synthesized xmlns attribute, also
\* when the explicit attributes hold an entry named style or xmlns.
C9Original ==
  last.name = "to_string" =>
    StartsWith(last.out,
               OpeningTag(el.tag, el.attrs \o StyleEntry(el) \o XmlnsEntry(el)))

\* the explicit attributes, a stored style or xmlns entry holding the
\* synthesized value in its stored place; then the synthesized entries that
\* replaced nothing
MergedAttrs(e) ==
  LET synth == StyleEntry(e) \o XmlnsEntry(e)
      Synth(k) == SelectSeq(synth, LAMBDA entry : entry.k = k)
      stored == [i \in 1..Len(e.attrs) |->
                   IF Synth(e.attrs[i].k) # <<>> THEN Synth(e.attrs[i].k)[1]
                   ELSE e.attrs[i]]
  IN stored \o SelectSeq(synth, LAMBDA entry : entry.k \notin MapKeys(e.attrs))

\* C9 amended: the opening tag holds the explicit attributes in stored order,
\* then the synthesized style attribute when style is non-empty, then the
\* synthesized xmlns attribute when namespace is set, except that a
\* synthesized attribute whose name is already among the explicit attributes
\* is not appended: it replaces that entry's value where the entry is stored.
\* Serialization leaves the element unchanged and does not depend on the
\* native handle.
C9Amended ==
  /\ [](last.name = "to_string" =>
          /\ StartsWith(last.out, OpeningTag(el.tag, MergedAttrs(el)))
          /\ \A h \in Handles : fmt([el EXCEPT !.node_ws = Some(h)]) = last.out)
  /\ [][last'.name = "to_string" => el' = el]_vars

\* an element serialized with an explicit style attribute stored before
\* another attribute, a style, and a namespace
C9Witness ==
  /\ last.name = "to_string"
  /\ Len(el.attrs) >= 2
  /\ el.attrs[1].k = "Style"
  /\ el.style # <<>>
  /\ el.namespace # None

(* ---------------------------------------------------------------------- *)
(* C10: the native handle                                                  *)
(* ---------------------------------------------------------------------- *)

StripName == "strip_ws_nodes_from_self_and_children"

\* what one step does to the native handles
C10Step ==
  /\ (last'.name # "attach" /\ HandleFree(ElementNode(el)))
       => HandleFree(ElementNode(el'))
  /\ last'.name \notin {"attach", StripName} => el'.node_ws = el.node_ws
  /\ last'.name = StripName => HandleFree(ElementNode(el'))

\* C10: no operation of the element populates the native handle: without the
\* reconciler an element without handles stays without them; the handle the
\* reconciler set is changed by strip_ws_nodes_from_self_and_children only,
\* which clears it on the element and on every descendant.
C10Thm == HandleFree(ElementNode(el)) /\ [][C10Step]_vars

\* map_msg has acted on an attached element with an attached child
C10Witness ==
  /\ last.name = "map_msg"
  /\ el.node_ws # None
  /\ \E i \in 1..Len(el.children) : ~HandleFree(el.children[i])

====
